---------------------------- MODULE Spec2Model ----------------------------
(***************************************************************************)
(* A model of scripts.v2/publish.js: the publish script (run), the token   *)
(* provider (getTokenOrThrow, generateSASToken), the HTTP wrapper          *)
(* (request, publish, getStorageSasTokenOrThrow) and the blob operations   *)
(* (downloadBlobs, uploadBlobs, deleteBlobs, listFilesInDirectory).        *)
(*                                                                         *)
(* A JavaScript string is a sequence of chunks; a chunk is a TLA+ string   *)
(* that holds no separator ("/", ".") unless it is that separator alone.   *)
(* Template literals and + are \o; "" and undefined are both <<>>.        *)
(***************************************************************************)
EXTENDS Integers, Sequences, FiniteSets, TLC

VARIABLES
    \* ---- the publish script and the HTTP wrapper
    yargs,      \* parsed command line: destToken, destId, destKey, publishEndpoint
    clock,      \* what moment() reads: ms since 2020-01-01T00:00:00.000Z
    entry,      \* which exported entry point the process drives: "run" | "storage"
    pc,         \* position of the process
    token,      \* what getTokenOrThrow returned (<<>> before it returns)
    requests,   \* the HTTPS requests issued so far, in order
    promise,    \* the promise request() returned
    settles,    \* how many times resolve/reject was called on that promise
    resp,       \* the completed response the 'end' handler saw
    thrown,     \* the error travelling up the call stack
    stdout,     \* console.log lines
    stderr,     \* console.error lines
    exitCode,   \* process.exitCode
    sasUrl,     \* what getStorageSasTokenOrThrow returned
    \* ---- generateSASToken called on its own
    calls,      \* the calls made so far: inputs, clock reading and result
    \* ---- the blob operations
    root,       \* snapshotMediaFolder / localMediaFolder
    container,  \* the "content" container: blob name -> content type
    dirs,       \* the directories of the local filesystem (resolved paths)
    files,      \* the regular files of the local filesystem (resolved paths)
    op,         \* the operation in progress or last finished
    items,      \* what the operation enumerates: blobs or file names, in order
    idx,        \* the item the loop is at
    started,    \* the items whose mkdir, transfer or delete was started
    result,     \* "idle" | "running" | "resolved" | "rejected"
    errorMessage, \* the message of the Error the operation rejected with
    cause,      \* the failure underneath: step, code and path
    written,    \* the downloadToFile calls that succeeded: blob and path
    uploaded,   \* the uploadFile calls that succeeded: file, key, content type
    failedAt,   \* the first item whose processing failed, 0 when none did
    history     \* the finished operations, in order

blobVars == <<root, container, dirs, files, op, items, idx, started, result,
              errorMessage, cause, written, uploaded, failedAt, history>>

vars == <<yargs, clock, entry, pc, token, requests, promise, settles, resp,
          thrown, stdout, stderr, exitCode, sasUrl, calls, blobVars>>

runVars == <<yargs, entry, pc, token, requests, promise, settles, resp,
             thrown, stdout, stderr, exitCode, sasUrl>>

(***************************************************************************)
(* Bounds of the model.                                                    *)
(***************************************************************************)
MaxBody == 3
MaxCalls == 2
MaxBlobs == 2
MaxNameAtoms == 3
MaxOps == 2

(***************************************************************************)
(* Strings.                                                                *)
(***************************************************************************)
Empty == <<>>

Truthy(s) == s # Empty

StartsWith(s, chunk) == Len(s) > 0 /\ s[1] = chunk

RECURSIVE SeqsUpTo(_, _)
SeqsUpTo(S, n) ==
    IF n = 0 THEN {<<>>}
    ELSE LET shorter == SeqsUpTo(S, n - 1)
         IN  shorter \cup {Append(s, c) : s \in {t \in shorter : Len(t) = n - 1}, c \in S}

Pad2(n) == IF n < 10 THEN "0" \o ToString(n) ELSE ToString(n)

Pad3(n) == IF n < 10 THEN "00" \o ToString(n)
           ELSE IF n < 100 THEN "0" \o ToString(n) ELSE ToString(n)

(***************************************************************************)
(* moment: instants are ms since 2020-01-01T00:00:00.000Z, within January. *)
(***************************************************************************)
DefaultExpiresIn == 3600

\* now.clone().add(expiresIn, 'seconds')
AddSeconds(t, seconds) == t + 1000 * seconds

\* expiry.format(`YYYY-MM-DD[T]HH:mm:ss.SSSSSSS[Z]`): moment keeps milliseconds,
\* so the seven fractional digits are the three of the millisecond and "0000".
FormatInstant(t) ==
    LET ms   == t % 1000
        secs == t \div 1000
        day  == 1 + (secs \div 86400)
        hh   == (secs % 86400) \div 3600
        mm   == (secs % 3600) \div 60
        ss   == secs % 60
    IN  <<"2020-01-" \o Pad2(day) \o "T" \o Pad2(hh) \o ":" \o Pad2(mm) \o ":"
            \o Pad2(ss) \o "." \o Pad3(ms) \o "0000" \o "Z">>

\* crypto.createHmac('sha512', key).update(data).digest('base64'): a symbolic
\* keyed hash, a different string for different keys or different data.
HmacSha512Base64(key, data) ==
    <<"base64(hmac-sha512[">> \o key \o <<"](">> \o data \o <<"))">>

\* A faulty variant: the data is signed with the current instant, not the expiry.
generateSASToken_SignsNow(id, key, now, expiresIn) ==
    LET expiryString == FormatInstant(AddSeconds(now, expiresIn))
        dataToSign   == id \o <<"\n">> \o FormatInstant(now)
        signedData   == HmacSha512Base64(key, dataToSign)
    IN  <<"SharedAccessSignature uid=">> \o id \o <<"&ex=">> \o expiryString
            \o <<"&sn=">> \o signedData

\* generateSASToken(id, key, expiresIn = 3600), reading the clock as `now`.
generateSASToken(id, key, now, expiresIn) ==
    LET expiry       == AddSeconds(now, expiresIn)
        expiryString == FormatInstant(expiry)
        dataToSign   == id \o <<"\n">> \o expiryString
        signedData   == HmacSha512Base64(key, dataToSign)
    IN  <<"SharedAccessSignature uid=">> \o id \o <<"&ex=">> \o expiryString
            \o <<"&sn=">> \o signedData

MissingCredentialMessage == <<"You need to specify either: token or id AND key">>

\* A faulty variant: identifier and key are tried before the explicit token.
getTokenOrThrow_KeyFirst(tok, id, key, now) ==
    IF Truthy(id) /\ Truthy(key)
    THEN [ok |-> TRUE, value |-> generateSASToken(id, key, now, DefaultExpiresIn)]
    ELSE IF Truthy(tok) THEN [ok |-> TRUE, value |-> tok]
    ELSE [ok |-> FALSE, value |-> MissingCredentialMessage]

\* getTokenOrThrow(token, id, key): ok with the credential, or the thrown
\* Error's message.
getTokenOrThrow(tok, id, key, now) ==
    IF Truthy(tok) THEN [ok |-> TRUE, value |-> tok]
    ELSE IF Truthy(id) /\ Truthy(key)
    THEN [ok |-> TRUE, value |-> generateSASToken(id, key, now, DefaultExpiresIn)]
    ELSE [ok |-> FALSE, value |-> MissingCredentialMessage]

(***************************************************************************)
(* Response bodies are sequences of lexemes; JSON.parse over these lexemes *)
(* accepts a string literal, {} and {"containerSasUrl":value}.             *)
(***************************************************************************)
Lexemes == {"{", "}", ":", "\"containerSasUrl\"", "OK"}

Bodies == SeqsUpTo(Lexemes, MaxBody)

StringValue(s) == [kind |-> "string", text |-> s, members |-> <<>>]

ObjectValue(m) == [kind |-> "object", text |-> <<>>, members |-> m]

Undefined == [kind |-> "undefined", text |-> <<>>, members |-> <<>>]

ParseFailure == [ok |-> FALSE, next |-> 0, val |-> Undefined]

IsStringLexeme(l) == l = "\"containerSasUrl\""

RECURSIVE ParseValue(_, _)
ParseValue(b, i) ==
    IF i > Len(b) THEN ParseFailure
    ELSE IF IsStringLexeme(b[i])
    THEN [ok |-> TRUE, next |-> i + 1, val |-> StringValue(<<"containerSasUrl">>)]
    ELSE IF b[i] # "{" THEN ParseFailure
    ELSE IF i + 1 <= Len(b) /\ b[i + 1] = "}"
    THEN [ok |-> TRUE, next |-> i + 2, val |-> ObjectValue(<<>>)]
    ELSE IF i + 2 <= Len(b) /\ IsStringLexeme(b[i + 1]) /\ b[i + 2] = ":"
    THEN LET v == ParseValue(b, i + 3)
         IN  IF v.ok /\ v.next <= Len(b) /\ b[v.next] = "}"
             THEN [ok |-> TRUE, next |-> v.next + 1,
                   val |-> ObjectValue(<<[key |-> "containerSasUrl", value |-> v.val]>>)]
             ELSE ParseFailure
    ELSE ParseFailure

\* JSON.parse(data): ok with the value, or not ok (a SyntaxError is thrown).
JSONParse(data) ==
    LET r == ParseValue(data, 1)
    IN  IF r.ok /\ r.next = Len(data) + 1 THEN r ELSE ParseFailure

(***************************************************************************)
(* request(method, url, accessToken, body)                                 *)
(***************************************************************************)
\* A faulty variant: the Authorization header is left out.
RequestHeaders_NoAuthorization(accessToken, body) ==
    [IfMatch       |-> <<"*">>,
     ContentType   |-> <<"application/json">>,
     Authorization |-> Empty,
     ContentLength |-> IF Truthy(body) THEN <<ToString(Len(body))>> ELSE Empty]

\* The headers of lines 191-199; Content-Length only with a body.
RequestHeaders(accessToken, body) ==
    [IfMatch       |-> <<"*">>,
     ContentType   |-> <<"application/json">>,
     Authorization |-> accessToken,
     ContentLength |-> IF Truthy(body) THEN <<ToString(Len(body))>> ELSE Empty]

\* The options and url handed to https.request.
RequestDescriptor(method, url, accessToken, body) ==
    [port |-> 443, method |-> method, url |-> url,
     headers |-> RequestHeaders(accessToken, body), body |-> body]

Pending == [state |-> "pending", value |-> Undefined, code |-> "", message |-> Empty]

NoPromise == [state |-> "none", value |-> Undefined, code |-> "", message |-> Empty]

Resolve(v) == [act |-> "resolve", value |-> v, code |-> "", message |-> Empty]

Reject(code, message) ==
    [act |-> "reject", value |-> Undefined, code |-> code, message |-> message]

Throw(message) ==
    [act |-> "throw", value |-> Undefined, code |-> "SyntaxError", message |-> message]

\* The resp.on('end') handler: what it does with the promise.
OnEnd(url, statusCode, statusMessage, data) ==
    IF statusCode \in {200, 201}
    THEN IF StartsWith(data, "{")
         THEN LET r == JSONParse(data)
              IN  IF r.ok THEN Resolve(r.val)
                  ELSE Throw(<<"Unexpected token in JSON">>)
         ELSE Resolve(StringValue(data))
    ELSE IF statusCode = 404
    THEN Reject("NotFound", <<"Resource not found: ">> \o url)
    ELSE IF statusCode = 401
    THEN Reject("Unauthorized", <<"Unauthorized. Make sure you correctly specified management API access token before running the script.">>)
    ELSE IF statusCode = 403
    THEN Reject("Forbidden", <<"Looks like you are not allowed to perform this operation. Please check with your administrator.">>)
    ELSE Reject("UnhandledError",
                <<"Could not complete request to ">> \o url \o <<". Status: ">>
                    \o <<ToString(statusCode)>> \o <<" ">> \o statusMessage)

\* The promise after resolve or reject was called on it.
Settle(p, o) ==
    IF p.state # "pending" THEN p
    ELSE [state   |-> IF o.act = "resolve" THEN "resolved" ELSE "rejected",
          value   |-> o.value,
          code    |-> o.code,
          message |-> o.message]

\* response.containerSasUrl
Member(v, key) ==
    IF v.kind = "object" /\ \E i \in 1..Len(v.members) : v.members[i].key = key
    THEN LET i == CHOOSE j \in 1..Len(v.members) : v.members[j].key = key
         IN  v.members[i].value
    ELSE Undefined

(***************************************************************************)
(* Path strings: String.prototype methods on sequences of chunks.          *)
(***************************************************************************)
\* s.indexOf(c) + 1: the first position of chunk c, 0 when there is none
IndexOf(s, c) ==
    IF \E i \in 1..Len(s) : s[i] = c
    THEN CHOOSE i \in 1..Len(s) : s[i] = c /\ \A j \in 1..(i - 1) : s[j] # c
    ELSE 0

\* s.lastIndexOf(c) + 1
LastIndexOf(s, c) ==
    IF \E i \in 1..Len(s) : s[i] = c
    THEN CHOOSE i \in 1..Len(s) : s[i] = c /\ \A j \in (i + 1)..Len(s) : s[j] # c
    ELSE 0

\* s.substring(0, s.lastIndexOf(c)); lastIndexOf's -1 is clamped to 0
SubstringToLast(s, c) == SubSeq(s, 1, LastIndexOf(s, c) - 1)

\* s.split(c)[0]
SplitFirst(s, c) == IF IndexOf(s, c) = 0 THEN s ELSE SubSeq(s, 1, IndexOf(s, c) - 1)

\* s.replace(pattern, ""): the first occurrence of a string pattern is removed
RemoveFirst(s, pattern) ==
    LET n    == Len(pattern)
        hits == {i \in 1..(Len(s) - n + 1) : SubSeq(s, i, i + n - 1) = pattern}
    IN  IF n = 0 \/ hits = {} THEN s
        ELSE LET i == CHOOSE h \in hits : \A g \in hits : h <= g
             IN  SubSeq(s, 1, i - 1) \o SubSeq(s, i + n, Len(s))

\* the segments of a path string between its "/"
RECURSIVE Segments(_)
Segments(p) ==
    IF IndexOf(p, "/") = 0 THEN <<p>>
    ELSE <<SubSeq(p, 1, IndexOf(p, "/") - 1)>>
             \o Segments(SubSeq(p, IndexOf(p, "/") + 1, Len(p)))

Cwd == <<(<<"cwd">>)>>

RECURSIVE Normalize(_, _)
Normalize(acc, segs) ==
    IF segs = <<>> THEN acc
    ELSE LET seg == Head(segs)
         IN  IF seg = <<>> \/ seg = <<".">> THEN Normalize(acc, Tail(segs))
             ELSE IF seg = <<".", ".">>
             THEN Normalize(SubSeq(acc, 1, Len(acc) - 1), Tail(segs))
             ELSE Normalize(Append(acc, seg), Tail(segs))

\* path.resolve(p): the absolute, normalized path, as its sequence of segments
PathResolve(p) ==
    IF StartsWith(p, "/") THEN Normalize(<<>>, Segments(p))
    ELSE Normalize(Cwd, Segments(p))

\* path.extname(p).substr(1): what follows the last "." of the last segment,
\* nothing when there is no "." or only a leading one
Extname(p) ==
    LET base == SubSeq(p, LastIndexOf(p, "/") + 1, Len(p))
        dot  == LastIndexOf(base, ".")
    IN  IF dot <= 1 THEN Empty ELSE SubSeq(base, dot + 1, Len(base))

(***************************************************************************)
(* mime-types: the registry. A lookup that finds nothing returns false.    *)
(***************************************************************************)
JsString(s) == [type |-> "string", str |-> s]

\* false, and what a template literal makes of it
JsFalse == [type |-> "boolean", str |-> <<"false">>]

\* x != null
NotNullish(x) == x.type \notin {"null", "undefined"}

\* x || d
OrElse(x, d) == IF x.type = "string" /\ x.str # Empty THEN x.str ELSE d

\* mime.extension(type): the first extension registered for the type; false
\* for a type that is not registered and for a missing one
MimeExtension(contentType) ==
    CASE contentType = <<"image/png">> -> JsString(<<"png">>)
      [] contentType = <<"audio/mp3">> -> JsString(<<"mp3">>)
      [] contentType = <<"audio/mpeg">> -> JsString(<<"mpga">>)
      [] contentType = <<"application/octet-stream">> -> JsString(<<"bin">>)
      [] OTHER -> JsFalse

\* mime.types[extension]: the type an extension is registered under
MimeTypes(extension) ==
    CASE extension = <<"png">> -> JsString(<<"image/png">>)
      [] extension = <<"mp3">> -> JsString(<<"audio/mpeg">>)
      [] extension = <<"mpga">> -> JsString(<<"audio/mpeg">>)
      [] extension = <<"bin">> -> JsString(<<"application/octet-stream">>)
      [] OTHER -> JsFalse

\* mime.lookup(path)
MimeLookup(p) ==
    LET extension == Extname(<<"x", ".">> \o p)
    IN  IF extension = Empty THEN JsFalse ELSE MimeTypes(extension)

(***************************************************************************)
(* The local filesystem: fs.promises.mkdir, readdirSync/statSync, and the  *)
(* file side of downloadToFile. Paths are resolved paths.                  *)
(***************************************************************************)
Prefixes(rp) == {SubSeq(rp, 1, k) : k \in 0..Len(rp)}

Parent(rp) == SubSeq(rp, 1, Len(rp) - 1)

\* A faulty variant: mkdir without { recursive: true }.
Mkdir_NotRecursive(D, F, p) ==
    LET rp == PathResolve(p)
    IN  IF rp \in D \/ rp \in F THEN [code |-> "EEXIST", dirs |-> D, path |-> rp]
        ELSE IF Parent(rp) \notin D THEN [code |-> "ENOENT", dirs |-> D, path |-> rp]
        ELSE [code |-> "ok", dirs |-> D \cup {rp}, path |-> rp]

\* fs.promises.mkdir(path.resolve(p), { recursive: true }): an existing
\* directory is no error; a regular file on the way is.
Mkdir(D, F, p) ==
    LET rp == PathResolve(p)
    IN  IF rp \in F THEN [code |-> "EEXIST", dirs |-> D, path |-> rp]
        ELSE IF \E q \in Prefixes(rp) : q \in F
        THEN [code |-> "ENOTDIR", dirs |-> D, path |-> rp]
        ELSE [code |-> "ok", dirs |-> D \cup Prefixes(rp), path |-> rp]

\* blockBlobClient.downloadToFile(pathToFile): the blob is fetched, then the
\* file is created or overwritten.
DownloadToFile(D, F, pathToFile, fault) ==
    LET rp == PathResolve(pathToFile)
    IN  IF fault THEN [code |-> "ECONNRESET", files |-> F, path |-> rp]
        ELSE IF rp \in D THEN [code |-> "EISDIR", files |-> F, path |-> rp]
        ELSE IF Parent(rp) \in F THEN [code |-> "ENOTDIR", files |-> F, path |-> rp]
        ELSE IF Parent(rp) \notin D THEN [code |-> "ENOENT", files |-> F, path |-> rp]
        ELSE [code |-> "ok", files |-> F \cup {rp}, path |-> rp]

\* fs.readdirSync(dir): the names of the entries of a directory
Children(D, F, rp) ==
    {q[Len(q)] : q \in {r \in D \cup F : Len(r) = Len(rp) + 1 /\ Parent(r) = rp}}

\* the names of everything below a directory
EntryNames(D, F, rp) ==
    UNION {{q[k] : k \in (Len(rp) + 1)..Len(q)} :
              q \in {r \in D \cup F : Len(r) > Len(rp) /\ SubSeq(r, 1, Len(rp)) = rp}}

\* the orders in which a finite set can be enumerated
Orderings(S) ==
    {f \in [1..Cardinality(S) -> S] :
        \A i, j \in 1..Cardinality(S) : i # j => f[i] # f[j]}

\* listFilesInDirectory(dir), readdirSync returning entries in the order ord
RECURSIVE listFilesInDirectory(_, _, _, _)
RECURSIVE ListEntries(_, _, _, _, _)
listFilesInDirectory(dir, ord, D, F) == ListEntries(dir, ord, D, F, 1)

ListEntries(dir, ord, D, F, i) ==
    IF i > Len(ord) THEN <<>>
    ELSE LET file == dir \o <<"/">> \o ord[i]
             here == IF ord[i] \notin Children(D, F, PathResolve(dir)) THEN <<>>
                     ELSE IF PathResolve(file) \in D
                     THEN listFilesInDirectory(file, ord, D, F)
                     ELSE <<file>>
         IN  here \o ListEntries(dir, ord, D, F, i + 1)

(***************************************************************************)
(* The name mappings of downloadBlobs and uploadBlobs.                     *)
(***************************************************************************)
\* pathToFile of lines 259-267
DownloadPath(snapshotMediaFolder, blob) ==
    LET extension == MimeExtension(blob.contentType)
    IN  IF NotNullish(extension)
        THEN snapshotMediaFolder \o <<"/">> \o blob.name \o <<".">> \o extension.str
        ELSE snapshotMediaFolder \o <<"/">> \o blob.name

\* A faulty variant: the name is cut at its first "." before the folder is removed.
BlobKey_CutsFirst(fileName, localMediaFolder) ==
    RemoveFirst(SplitFirst(fileName, "."), localMediaFolder \o <<"/">>)

\* blobKey of line 286
BlobKey(fileName, localMediaFolder) ==
    SplitFirst(RemoveFirst(fileName, localMediaFolder \o <<"/">>), ".")

\* contentType of line 287
UploadContentType(fileName) ==
    OrElse(MimeLookup(fileName), <<"application/octet-stream">>)

OwnError(o) ==
    CASE o = "download" -> <<"Unable to download media files. ">>
      [] o = "upload"   -> <<"Unable to upload media files. ">>
      [] o = "delete"   -> <<"Unable to delete media files. ">>

\* A faulty variant: the failure of one item is swallowed and the loop goes on.
OnItemFailure_Continues(o, k, n, code) ==
    [result  |-> IF k = n THEN "resolved" ELSE "running",
     message |-> Empty,
     idx     |-> k + 1]

\* An await inside the loop throws: the catch block rethrows, the loop is left.
OnItemFailure(o, k, n, code) ==
    [result  |-> "rejected",
     message |-> OwnError(o) \o <<code>>,
     idx     |-> k]

NoCause == [step |-> "none", code |-> "ok", path |-> <<>>]

IdleBlobs ==
    /\ root = Empty
    /\ container = <<>>
    /\ dirs = {}
    /\ files = {}
    /\ op = "none"
    /\ items = <<>>
    /\ idx = 0
    /\ started = <<>>
    /\ result = "idle"
    /\ errorMessage = Empty
    /\ cause = NoCause
    /\ written = {}
    /\ uploaded = {}
    /\ failedAt = 0
    /\ history = <<>>

(***************************************************************************)
(* Inputs.                                                                 *)
(***************************************************************************)
Tokens == {Empty, <<"SharedAccessSignature integration&2020...">>}

Ids == {Empty, <<"integration">>}

Keys == {Empty, <<"primaryKey">>}

Endpoints == {<<"contoso.developer.azure-api.net">>}

\* 2020-01-01T00:00:00.000Z and 2020-01-01T23:59:59.999Z
Clocks == {0, 86399999}

\* the instants of the calls of generateSASToken on its own: also 00:30:00.500
\* and 2020-01-02T07:08:09.010
TokenClocks == Clocks \cup {1800500, 112089010}

TokenIds == {<<"integration">>, <<"admin">>}

TokenKeys == {<<"primaryKey">>, <<"secondaryKey">>}

ExpiresIns == {DefaultExpiresIn, 1}

StatusCodes == {200, 201, 204, 401, 403, 404, 500}

StatusMessage(statusCode) ==
    CASE statusCode = 200 -> <<"OK">>
      [] statusCode = 201 -> <<"Created">>
      [] statusCode = 204 -> <<"No Content">>
      [] statusCode = 401 -> <<"Unauthorized">>
      [] statusCode = 403 -> <<"Forbidden">>
      [] statusCode = 404 -> <<"Not Found">>
      [] OTHER -> <<"Internal Server Error">>

NoResponse == [kind |-> "none", statusCode |-> 0, statusMessage |-> Empty, data |-> Empty]

PublishUrl(endpoint) == <<"https://">> \o endpoint \o <<"/publish">>

ListSecretsUrl(managementApiEndpoint) ==
    <<"https://">> \o managementApiEndpoint
        \o <<"/subscriptions/00000/resourceGroups/00000/providers/Microsoft.ApiManagement/service/00000/portalSettings/mediaContent/listSecrets?api-version=2019-12-01">>

IdleRun ==
    /\ yargs = [destToken |-> Empty, destId |-> Empty, destKey |-> Empty,
                publishEndpoint |-> Empty]
    /\ entry = "none"
    /\ pc = "idle"
    /\ token = Empty
    /\ requests = <<>>
    /\ promise = NoPromise
    /\ settles = 0
    /\ resp = NoResponse
    /\ thrown = Empty
    /\ stdout = <<>>
    /\ stderr = <<>>
    /\ exitCode = 0
    /\ sasUrl = Undefined

(***************************************************************************)
(* The publish script: run() and its .then/.catch, and a caller of the     *)
(* exported getStorageSasTokenOrThrow.                                     *)
(***************************************************************************)
Init ==
    /\ yargs \in [destToken : Tokens, destId : Ids, destKey : Keys,
                  publishEndpoint : Endpoints]
    /\ clock \in Clocks
    /\ entry \in {"run", "storage"}
    /\ pc = "start"
    /\ token = Empty
    /\ requests = <<>>
    /\ promise = NoPromise
    /\ settles = 0
    /\ resp = NoResponse
    /\ thrown = Empty
    /\ stdout = <<>>
    /\ stderr = <<>>
    /\ exitCode = 0
    /\ sasUrl = Undefined
    /\ calls = {}
    /\ IdleBlobs

\* await getTokenOrThrow(yargs.destToken, yargs.destId, yargs.destKey)
ResolveToken ==
    /\ pc = "start"
    /\ LET r == getTokenOrThrow(yargs.destToken, yargs.destId, yargs.destKey, clock)
       IN  IF r.ok
           THEN /\ token' = r.value
                /\ pc' = IF entry = "run" THEN "publish" ELSE "storage"
                /\ UNCHANGED thrown
           ELSE /\ thrown' = r.value
                /\ pc' = IF entry = "run" THEN "runCatch" ELSE "failed"
                /\ UNCHANGED token
    /\ UNCHANGED <<yargs, clock, entry, requests, promise, settles, resp,
                   stdout, stderr, exitCode, sasUrl, calls, blobVars>>

\* request(): https.request(url, options, ...) and req.end()
IssueRequest(method, url, accessToken, body) ==
    /\ requests' = Append(requests, RequestDescriptor(method, url, accessToken, body))
    /\ promise' = Pending
    /\ settles' = 0
    /\ pc' = "inflight"

\* publish(publishEndpoint, destManagementApiAccessToken) up to its await
Publish ==
    /\ pc = "publish"
    /\ IssueRequest("POST", PublishUrl(yargs.publishEndpoint), token, Empty)
    /\ UNCHANGED <<yargs, clock, entry, token, resp, thrown, stdout, stderr,
                   exitCode, sasUrl, calls, blobVars>>

\* getStorageSasTokenOrThrow(endpoint, t), called with the credential or with none
GetStorageSasTokenOrThrow ==
    /\ pc = "storage"
    /\ \E managementApiAccessToken \in {token, Empty} :
          IF Truthy(managementApiAccessToken)
          THEN /\ IssueRequest("POST", ListSecretsUrl(yargs.publishEndpoint),
                               managementApiAccessToken, Empty)
               /\ UNCHANGED thrown
          ELSE /\ thrown' = <<"Storage connection could not be retrieved">>
               /\ pc' = "failed"
               /\ UNCHANGED <<requests, promise, settles>>
    /\ UNCHANGED <<yargs, clock, entry, token, resp, stdout, stderr, exitCode,
                   sasUrl, calls, blobVars>>

\* req.on('error', e => reject(e))
TransportError ==
    /\ pc = "inflight"
    /\ resp' = [kind |-> "error", statusCode |-> 0, statusMessage |-> Empty,
                data |-> Empty]
    /\ promise' = Settle(promise, Reject("ECONNRESET", <<"socket hang up">>))
    /\ settles' = settles + 1
    /\ pc' = "settled"
    /\ UNCHANGED <<yargs, clock, entry, token, requests, thrown, stdout, stderr,
                   exitCode, sasUrl, calls, blobVars>>

\* resp.on('end', ...) of a completed response; an exception thrown by the
\* handler is outside every promise and try block.
ResponseEnd ==
    /\ pc = "inflight"
    /\ \E statusCode \in StatusCodes, data \in Bodies :
          LET url == requests[Len(requests)].url
              o   == OnEnd(url, statusCode, StatusMessage(statusCode), data)
          IN  /\ resp' = [kind |-> "end", statusCode |-> statusCode,
                          statusMessage |-> StatusMessage(statusCode), data |-> data]
              /\ IF o.act = "throw"
                 THEN /\ thrown' = o.message
                      /\ pc' = "uncaught"
                      /\ UNCHANGED <<promise, settles>>
                 ELSE /\ promise' = Settle(promise, o)
                      /\ settles' = settles + 1
                      /\ pc' = "settled"
                      /\ UNCHANGED thrown
    /\ UNCHANGED <<yargs, clock, entry, token, requests, stdout, stderr,
                   exitCode, sasUrl, calls, blobVars>>

\* Node's handling of an uncaught exception: it is printed and the process
\* ends with status 1; no .then or .catch callback runs.
UncaughtException ==
    /\ pc = "uncaught"
    /\ stderr' = Append(stderr, <<"Uncaught SyntaxError: ">> \o thrown)
    /\ exitCode' = 1
    /\ pc' = "crashed"
    /\ UNCHANGED <<yargs, clock, entry, token, requests, promise, settles, resp,
                   thrown, stdout, sasUrl, calls, blobVars>>

\* publish() after `await request(...)`: returns, or wraps the error
PublishAwait ==
    /\ pc = "settled"
    /\ entry = "run"
    /\ IF promise.state = "resolved"
       THEN /\ pc' = "runResolved"
            /\ UNCHANGED thrown
       ELSE /\ thrown' = <<"Unable to schedule website publishing. ">> \o promise.message
            /\ pc' = "runCatch"
    /\ UNCHANGED <<yargs, clock, entry, token, requests, promise, settles, resp,
                   stdout, stderr, exitCode, sasUrl, calls, blobVars>>

\* getStorageSasToken() after `await request(...)`: response.containerSasUrl
GetStorageSasTokenAwait ==
    /\ pc = "settled"
    /\ entry = "storage"
    /\ IF promise.state = "resolved"
       THEN /\ sasUrl' = Member(promise.value, "containerSasUrl")
            /\ pc' = "returned"
            /\ UNCHANGED thrown
       ELSE /\ thrown' = promise.message
            /\ pc' = "failed"
            /\ UNCHANGED sasUrl
    /\ UNCHANGED <<yargs, clock, entry, token, requests, promise, settles, resp,
                   stdout, stderr, exitCode, calls, blobVars>>

\* run(): catch (error) { throw new Error(`Unable to complete migration. ...`) }
RunCatch ==
    /\ pc = "runCatch"
    /\ thrown' = <<"Unable to complete migration. ">> \o thrown
    /\ pc' = "runRejected"
    /\ UNCHANGED <<yargs, clock, entry, token, requests, promise, settles, resp,
                   stdout, stderr, exitCode, sasUrl, calls, blobVars>>

\* run().then(() => console.log("DONE"))
ThenDone ==
    /\ pc = "runResolved"
    /\ stdout' = Append(stdout, <<"DONE">>)
    /\ pc' = "exit"
    /\ UNCHANGED <<yargs, clock, entry, token, requests, promise, settles, resp,
                   thrown, stderr, exitCode, sasUrl, calls, blobVars>>

\* run().catch(error => { console.error(error.message); process.exitCode = 1 })
CatchError ==
    /\ pc = "runRejected"
    /\ stderr' = Append(stderr, thrown)
    /\ exitCode' = 1
    /\ pc' = "exit"
    /\ UNCHANGED <<yargs, clock, entry, token, requests, promise, settles, resp,
                   thrown, stdout, sasUrl, calls, blobVars>>

Next ==
    \/ ResolveToken
    \/ Publish
    \/ GetStorageSasTokenOrThrow
    \/ TransportError
    \/ ResponseEnd
    \/ UncaughtException
    \/ PublishAwait
    \/ GetStorageSasTokenAwait
    \/ RunCatch
    \/ ThenDone
    \/ CatchError

Spec == Init /\ [][Next]_vars

(***************************************************************************)
(* generateSASToken called repeatedly while the clock moves.               *)
(***************************************************************************)
InitToken ==
    /\ IdleRun
    /\ IdleBlobs
    /\ clock \in TokenClocks
    /\ calls = {}

\* time passes between two calls
Tick ==
    /\ \E t \in TokenClocks : t > clock /\ clock' = t
    /\ UNCHANGED <<runVars, calls, blobVars>>

\* one call of generateSASToken(id, key, expiresIn)
CallGenerateSASToken ==
    /\ Cardinality(calls) < MaxCalls
    /\ \E id \in TokenIds, key \in TokenKeys, expiresIn \in ExpiresIns :
          calls' = calls \cup
              {[id |-> id, key |-> key, now |-> clock, expiresIn |-> expiresIn,
                result |-> generateSASToken(id, key, clock, expiresIn)]}
    /\ UNCHANGED <<runVars, clock, blobVars>>

NextToken == Tick \/ CallGenerateSASToken

SpecToken == InitToken /\ [][NextToken]_vars

(***************************************************************************)
(* The blob operations, called one after another on one container and one  *)
(* local folder.                                                           *)
(***************************************************************************)
NameAtoms == {"a", "b", "/", "."}

\* a blob name: no empty segment and no segment made of dots only
ValidName(n) ==
    /\ n # Empty
    /\ \A i \in 1..Len(Segments(n)) :
          \E j \in 1..Len(Segments(n)[i]) : Segments(n)[i][j] # "."

BlobNames == {n \in SeqsUpTo(NameAtoms, MaxNameAtoms) : ValidName(n)}

\* the content types the store reports: registered both ways, registered one
\* way (the extension mp3 belongs to audio/mpeg), and unregistered
ContentTypes == {<<"image/png">>, <<"audio/mp3">>, <<"application/x-unregistered">>}

RECURSIVE TotalLen(_)
TotalLen(ns) ==
    IF ns = {} THEN 0
    ELSE LET n == CHOOSE x \in ns : TRUE IN Len(n) + TotalLen(ns \ {n})

RECURSIVE NameSets(_)
NameSets(k) ==
    IF k = 0 THEN {{}}
    ELSE LET smaller == NameSets(k - 1)
         IN  smaller \cup
             UNION {{ns \cup {n} :
                        n \in {m \in BlobNames : Len(m) <= MaxNameAtoms - TotalLen(ns)}} :
                    ns \in smaller}

\* the contents a container can start with: blob name -> content type
Containers == UNION {[ns -> ContentTypes] : ns \in NameSets(MaxBlobs)}

Roots == {<<".", "/", "media">>}

\* the local trees an operation can start from: nothing there, or the folder
\* with a regular file "a" in it
InitialTrees(r) ==
    LET rp   == PathResolve(r)
        base == Prefixes(Cwd)
    IN  {[dirs |-> base, files |-> {}],
         [dirs |-> base \cup Prefixes(rp), files |-> {Append(rp, <<"a">>)}]}

InitBlobs ==
    /\ IdleRun
    /\ clock = 0
    /\ calls = {}
    /\ root \in Roots
    /\ container \in Containers
    /\ \E t \in InitialTrees(root) : dirs = t.dirs /\ files = t.files
    /\ op = "none"
    /\ items = <<>>
    /\ idx = 0
    /\ started = <<>>
    /\ result = "idle"
    /\ errorMessage = Empty
    /\ cause = NoCause
    /\ written = {}
    /\ uploaded = {}
    /\ failedAt = 0
    /\ history = <<>>

\* the operations are awaited one after another; a rejected one ends the script
CanStart == result \in {"idle", "resolved"} /\ Len(history) < MaxOps

Finished(o, r, c) ==
    IF r \in {"resolved", "rejected"}
    THEN Append(history, [op |-> o, result |-> r, step |-> c.step, code |-> c.code])
    ELSE history

\* containerClient.listBlobsFlat(): the blobs, in an order the store chooses
Listings ==
    {[i \in 1..Len(ord) |-> [name |-> ord[i], contentType |-> container[ord[i]]]] :
        ord \in Orderings(DOMAIN container)}

\* the operation starts its loop over the enumeration e (or returns at once)
Begin(o, e) ==
    /\ op' = o
    /\ items' = e
    /\ idx' = 1
    /\ started' = <<>>
    /\ failedAt' = 0
    /\ errorMessage' = Empty
    /\ cause' = NoCause
    /\ result' = IF e = <<>> THEN "resolved" ELSE "running"
    /\ history' = Finished(o, IF e = <<>> THEN "resolved" ELSE "running", NoCause)

\* the operation fails before its loop
FailAtStart(o, c) ==
    /\ op' = o
    /\ items' = <<>>
    /\ idx' = 0
    /\ started' = <<>>
    /\ failedAt' = 0
    /\ errorMessage' = OwnError(o) \o <<c.code>>
    /\ cause' = c
    /\ result' = "rejected"
    /\ history' = Finished(o, "rejected", c)

\* the body of the loop ran to its end for items[idx]
ItemDone ==
    /\ idx' = idx + 1
    /\ result' = IF idx = Len(items) THEN "resolved" ELSE "running"
    /\ history' = Finished(op, IF idx = Len(items) THEN "resolved" ELSE "running", NoCause)
    /\ UNCHANGED <<errorMessage, cause, failedAt>>

\* an await in the body of the loop threw for items[idx]
ItemFailed(c) ==
    LET n == OnItemFailure(op, idx, Len(items), c.code)
    IN  /\ idx' = n.idx
        /\ result' = n.result
        /\ errorMessage' = n.message
        /\ cause' = c
        /\ failedAt' = IF failedAt = 0 THEN idx ELSE failedAt
        /\ history' = Finished(op, n.result, c)

\* downloadBlobs up to its loop: mkdir of the folder, listBlobsFlat
DownloadStart ==
    /\ CanStart
    /\ LET md == Mkdir(dirs, files, root)
       IN  IF md.code = "ok"
           THEN /\ dirs' = md.dirs
                /\ \E e \in Listings : Begin("download", e)
           ELSE /\ FailAtStart("download", [step |-> "mkdir", code |-> md.code, path |-> md.path])
                /\ UNCHANGED dirs
    /\ UNCHANGED <<root, container, files, written, uploaded>>
    /\ UNCHANGED <<runVars, clock, calls>>

\* one round of the loop of downloadBlobs: path, mkdir, downloadToFile
DownloadStep ==
    /\ op = "download"
    /\ result = "running"
    /\ \E fault \in BOOLEAN :
          LET blob       == items[idx]
              pathToFile == DownloadPath(root, blob)
              folderPath == SubstringToLast(pathToFile, "/")
              md         == Mkdir(dirs, files, folderPath)
              dl         == DownloadToFile(md.dirs, files, pathToFile, fault)
          IN  /\ started' = Append(started, idx)
              /\ dirs' = md.dirs
              /\ IF md.code # "ok"
                 THEN /\ ItemFailed([step |-> "mkdir", code |-> md.code, path |-> md.path])
                      /\ UNCHANGED <<files, written>>
                 ELSE IF dl.code # "ok"
                 THEN /\ ItemFailed([step |-> "transfer", code |-> dl.code, path |-> dl.path])
                      /\ UNCHANGED <<files, written>>
                 ELSE /\ files' = dl.files
                      /\ written' = written \cup {[blob |-> blob, path |-> pathToFile]}
                      /\ ItemDone
    /\ UNCHANGED <<root, container, op, items, uploaded>>
    /\ UNCHANGED <<runVars, clock, calls>>

\* uploadBlobs up to its loop: listFilesInDirectory(localMediaFolder)
UploadStart ==
    /\ CanStart
    /\ LET rp == PathResolve(root)
       IN  IF rp \in dirs
           THEN \E ord \in Orderings(EntryNames(dirs, files, rp)) :
                   Begin("upload", listFilesInDirectory(root, ord, dirs, files))
           ELSE FailAtStart("upload", [step |-> "readdir", code |-> "ENOENT", path |-> rp])
    /\ UNCHANGED <<root, container, dirs, files, written, uploaded>>
    /\ UNCHANGED <<runVars, clock, calls>>

\* one round of the loop of uploadBlobs: key, content type, uploadFile
UploadStep ==
    /\ op = "upload"
    /\ result = "running"
    /\ \E fault \in BOOLEAN :
          LET fileName    == items[idx]
              blobKey     == BlobKey(fileName, root)
              contentType == UploadContentType(fileName)
          IN  /\ started' = Append(started, idx)
              /\ IF fault
                 THEN /\ ItemFailed([step |-> "transfer", code |-> "ECONNRESET",
                                     path |-> PathResolve(fileName)])
                      /\ UNCHANGED <<container, uploaded>>
                 ELSE /\ container' = [n \in DOMAIN container \cup {blobKey} |->
                                          IF n = blobKey THEN contentType ELSE container[n]]
                      /\ uploaded' = uploaded \cup {[fileName |-> fileName,
                                                    blobKey |-> blobKey,
                                                    contentType |-> contentType]}
                      /\ ItemDone
    /\ UNCHANGED <<root, dirs, files, op, items, written>>
    /\ UNCHANGED <<runVars, clock, calls>>

\* deleteBlobs up to its loop: listBlobsFlat
DeleteStart ==
    /\ CanStart
    /\ \E e \in Listings : Begin("delete", e)
    /\ UNCHANGED <<root, container, dirs, files, written, uploaded>>
    /\ UNCHANGED <<runVars, clock, calls>>

\* one round of the loop of deleteBlobs: blockBlobClient.delete()
DeleteStep ==
    /\ op = "delete"
    /\ result = "running"
    /\ \E fault \in BOOLEAN :
          LET blob == items[idx]
          IN  /\ started' = Append(started, idx)
              /\ IF fault
                 THEN /\ ItemFailed([step |-> "delete", code |-> "ECONNRESET",
                                     path |-> <<blob.name>>])
                      /\ UNCHANGED container
                 ELSE /\ container' = [n \in DOMAIN container \ {blob.name} |-> container[n]]
                      /\ ItemDone
    /\ UNCHANGED <<root, dirs, files, op, items, written, uploaded>>
    /\ UNCHANGED <<runVars, clock, calls>>

NextBlobs ==
    \/ DownloadStart
    \/ DownloadStep
    \/ UploadStart
    \/ UploadStep
    \/ DeleteStart
    \/ DeleteStep

SpecBlobs == InitBlobs /\ [][NextBlobs]_vars

(***************************************************************************)
(* Properties of the publish script and the HTTP wrapper (Spec).           *)
(***************************************************************************)
LastUrl == requests[Len(requests)].url

\* C1: every status of a completed response settles the promise exactly once,
\* with the outcome fixed by the status: 200 and 201 resolve, 404 rejects with
\* NotFound naming the url, 401 with Unauthorized, 403 with Forbidden, every
\* other status with UnhandledError naming url, status and status message.
C1_StatusMappingTotal ==
    resp.kind = "end" =>
        /\ settles = 1
        /\ CASE resp.statusCode \in {200, 201} -> promise.state = "resolved"
             [] resp.statusCode = 404 ->
                    /\ promise.state = "rejected"
                    /\ promise.code = "NotFound"
                    /\ promise.message = <<"Resource not found: ">> \o LastUrl
             [] resp.statusCode = 401 ->
                    promise.state = "rejected" /\ promise.code = "Unauthorized"
             [] resp.statusCode = 403 ->
                    promise.state = "rejected" /\ promise.code = "Forbidden"
             [] OTHER ->
                    /\ promise.state = "rejected"
                    /\ promise.code = "UnhandledError"
                    /\ promise.message =
                           <<"Could not complete request to ">> \o LastUrl
                               \o <<". Status: ", ToString(resp.statusCode), " ">>
                               \o resp.statusMessage

\* C2: on 200 or 201 the handler never throws and the promise resolves for
\* every body: with the parsed structure when the body starts with "{", with
\* the body as a literal string otherwise.
C2_SuccessNeverThrows ==
    (resp.kind = "end" /\ resp.statusCode \in {200, 201}) =>
        /\ pc \notin {"uncaught", "crashed"}
        /\ promise.state = "resolved"
        /\ IF StartsWith(resp.data, "{")
           THEN promise.value.kind = "object"
           ELSE promise.value = StringValue(resp.data)

TokenGiven == Truthy(yargs.destToken)

IdAndKeyGiven == Truthy(yargs.destId) /\ Truthy(yargs.destKey)

\* C6: getTokenOrThrow returns a non-empty token unchanged (whatever id and key
\* are); else derives a SharedAccessSignature credential from a non-empty id
\* and key; else fails with the missing-credential error, and then no request
\* is ever issued.
C6_TokenDecisionOrder ==
    pc # "start" =>
        /\ TokenGiven => token = yargs.destToken
        /\ (~TokenGiven /\ IdAndKeyGiven) =>
               /\ StartsWith(token, "SharedAccessSignature uid=")
               /\ SubSeq(token, 2, 1 + Len(yargs.destId)) = yargs.destId
        /\ (~TokenGiven /\ ~IdAndKeyGiven) =>
               /\ token = Empty
               /\ requests = <<>>
               /\ thrown \in {MissingCredentialMessage,
                              <<"Unable to complete migration. ">>
                                  \o MissingCredentialMessage}

\* the missing-credential failure has run to the end of the script
C6_Witness ==
    /\ entry = "run"
    /\ pc = "exit"
    /\ ~TokenGiven
    /\ ~IdAndKeyGiven
    /\ Truthy(yargs.destId)

RunFailed ==
    \/ (~TokenGiven /\ ~IdAndKeyGiven)
    \/ resp.kind = "error"
    \/ (resp.kind = "end" /\ resp.statusCode \notin {200, 201})
    \/ pc = "crashed"

HandlerRan ==
    /\ pc = "exit"
    /\ exitCode # 0
    /\ Len(stderr) = 1
    /\ StartsWith(stderr[1], "Unable to complete migration. ")

\* C7: every failure of run() (token resolution, transport error, a status
\* other than 200/201, any step throwing) reaches the outermost handler, which
\* prints the final message and sets a non-zero exit status, and DONE is not
\* printed; DONE is printed only after token resolution and publish succeeded.
C7_FailuresReachHandler ==
    entry = "run" =>
        /\ stdout # <<>> =>
               /\ stdout = <<(<<"DONE">>)>>
               /\ Truthy(token)
               /\ promise.state = "resolved"
               /\ ~RunFailed
        /\ (pc \in {"exit", "crashed"} /\ RunFailed) => (HandlerRan /\ stdout = <<>>)

\* C8: every request issued carries, verbatim, the credential getTokenOrThrow
\* returned, which is never empty; getStorageSasTokenOrThrow given an empty
\* token fails without a request.
C8_CredentialInvariant ==
    /\ \A i \in 1..Len(requests) :
          /\ Truthy(token)
          /\ requests[i].headers.Authorization = token
    /\ thrown = <<"Storage connection could not be retrieved">> => requests = <<>>

\* the listSecrets request was issued and answered
C8_Witness ==
    /\ entry = "storage"
    /\ pc = "returned"
    /\ Len(requests) = 1
    /\ requests[1].url = ListSecretsUrl(yargs.publishEndpoint)
    /\ ~TokenGiven

(***************************************************************************)
(* Properties of generateSASToken (SpecToken).                             *)
(***************************************************************************)
\* C10: for a fixed identifier, key, instant and expiry window the derived
\* credential is one string, SharedAccessSignature uid=<id>&ex=<E>&sn=<S> with
\* E the instant plus the window and S the keyed hash of "<id>\n<E>"; the E of
\* the ex field is the E of the signed data.
C10_DerivedCredential ==
    /\ \A c \in calls :
          LET E == FormatInstant(c.now + 1000 * c.expiresIn)
              S == HmacSha512Base64(c.key, c.id \o <<"\n">> \o E)
          IN  /\ c.result = <<"SharedAccessSignature uid=">> \o c.id \o <<"&ex=">>
                                \o E \o <<"&sn=">> \o S
              /\ Len(c.result) = 12
              /\ c.result[4] = c.result[11]
    /\ \A c, d \in calls :
          (c.id = d.id /\ c.key = d.key /\ c.now = d.now /\ c.expiresIn = d.expiresIn)
              => c.result = d.result

\* two calls, one of them with the default window across midnight
C10_Witness ==
    /\ Cardinality(calls) = 2
    /\ \E c \in calls :
          /\ c.now = 86399999
          /\ c.expiresIn = DefaultExpiresIn
          /\ c.result[4] = "2020-01-02T00:59:59.9990000Z"

(***************************************************************************)
(* Properties of the blob operations (SpecBlobs).                          *)
(***************************************************************************)
\* C3: when the k-th item of downloadBlobs, uploadBlobs or deleteBlobs fails,
\* the operation rejects with its own error, nothing is started for the items
\* after k, and the operation does not report success.
C3_AbortOnFirstFailure ==
    failedAt > 0 =>
        /\ result = "rejected"
        /\ Len(errorMessage) = 2
        /\ <<errorMessage[1]>> = OwnError(op)
        /\ \A i \in 1..Len(started) : started[i] <= failedAt
        /\ history # <<>>
        /\ history[Len(history)].op = op
        /\ history[Len(history)].result = "rejected"

\* three files enumerated, the transfer of the second one failed
C3_Witness ==
    /\ op = "upload"
    /\ Len(items) = 3
    /\ failedAt = 2
    /\ cause.step = "transfer"
    /\ started = <<1, 2>>
    /\ result = "rejected"

Unregistered(v) == v.type # "string"

\* C4: a blob whose content type has no registered extension (or that has no
\* content type) is written to exactly <root>/<name>; a file whose extension is
\* not registered (or that has none) is uploaded as application/octet-stream.
C4_UnknownTypeFallback ==
    /\ \A w \in written :
          Unregistered(MimeExtension(w.blob.contentType))
              => w.path = root \o <<"/">> \o w.blob.name
    /\ \A u \in uploaded :
          Unregistered(MimeLookup(u.fileName))
              => u.contentType = <<"application/octet-stream">>

RoundTrips(blob) ==
    /\ IndexOf(blob.name, ".") = 0
    /\ ~Unregistered(MimeExtension(blob.contentType))
    /\ MimeTypes(MimeExtension(blob.contentType).str) = JsString(blob.contentType)

C9_IdempotentDirectoryCreation ==
    /\ (op = "download" /\ cause.step = "mkdir") =>
           \E q \in Prefixes(cause.path) : q \in files
    /\ \A w \in written : Parent(PathResolve(w.path)) \in dirs
    /\ \A i \in 1..Len(history) :
          history[i].op = "download" => history[i].code # "ENOENT"
    /\ \A i \in 1..(Len(history) - 1) :
          (/\ history[i].op = "download"
           /\ history[i].result = "resolved"
           /\ history[i + 1].op = "download")
              => history[i + 1].code \in {"ok", "ECONNRESET"}

\* two downloads in a row succeeded, with a blob below an intermediate directory
C9_Witness ==
    /\ Len(history) = 2
    /\ \A i \in 1..2 : history[i].op = "download" /\ history[i].result = "resolved"
    /\ \E w \in written : IndexOf(w.blob.name, "/") > 0

=============================================================================
